---- MODULE Spec2Model ----
(***************************************************************************)
(* Feedback-Pulse: the ingestion / deduplication / analysis pipeline.      *)
(*                                                                         *)
(*   src/src/analyzer.py   SentimentAnalyzer                               *)
(*   src/src/translator.py TextTranslator, TranslationCache                *)
(*   src/src/parser.py     ReviewParser                                    *)
(*   src/src/security.py   SecurityManager                                 *)
(*   src/main.py           process_reviews_batch                           *)
(*                                                                         *)
(* Texts are sequences of one-character strings. Polarities are tenths     *)
(* (5 stands for 0.5, 0 for 0.0).                                          *)
(***************************************************************************)
EXTENDS Integers, Sequences, FiniteSets, TLC

VARIABLES
    \* ---- SentimentAnalyzer / TextTranslator (shared by every specification)
    lang_lru,           \* lru_cache of _detect_language: text -> language
    sent_lru,           \* lru_cache of _get_sentiment: text -> polarity
    translation_cache,  \* TranslationCache.cache: text -> translation
    \* ---- one caller of analyze_sentiment
    an_text,            \* the argument of the last call
    an_result,          \* what the last call produced
    an_calls,           \* number of calls made so far
    \* ---- analyze_batch
    b_texts,            \* the argument texts
    max_workers,        \* SentimentAnalyzer.max_workers
    b_pc,               \* where analyze_batch is
    futures,            \* the futures submitted so far, in submission order
    done_order,         \* the futures in the order in which they finished
    snapshot,           \* the futures as_completed found finished at its call
    yielded,            \* the futures as_completed has yielded
    results,            \* the list analyze_batch builds
    \* ---- ReviewParser
    max_retries,        \* ReviewParser.max_retries
    _driver,            \* ReviewParser._driver: "None" or the open session
    p_pc,               \* where parse_reviews is
    attempt,            \* the loop variable of parse_reviews
    loads,              \* calls of _load_reviews made by this call
    attempts_log,       \* how each of them ended
    waited,             \* time slept by this call
    created,            \* sessions created during this call
    quits,              \* quit() calls made during this call
    quit_errors,        \* those of them that raised
    sessions,           \* the session each attempt of this call ran on
    active,             \* sessions created and not yet released
    parses,             \* calls of parse_reviews made on this parser
    parse_result,       \* what parse_reviews returned or raised
    x_elements,         \* the review elements found on the page
    x_parsed,           \* what _parse_review_element gave for each of them
    x_pc,               \* where the extraction of _load_reviews is
    x_reviews,          \* the list `reviews` of _load_reviews
    \* ---- process_reviews_batch
    cache,              \* the list `cache`
    cache_in,           \* its contents when process_reviews_batch was called
    m_pc,               \* where process_reviews_batch is
    new_reviews,        \* the list `new_reviews`
    idx,                \* position of the analysis loop in new_reviews
    analyzer_calls,     \* calls of analyze_sentiment made by this run
    failed,             \* positions in new_reviews whose processing raised
                        \* before the entry was appended
    runs,               \* runs of process_reviews_batch started
    cache_file,         \* reviews_cache.json, as a list of entries
    load_exc,           \* what load_secure_cache raised in the last load_cache
    \* ---- main()
    config_file,        \* config.json
    mn_pc,              \* where main() is
    mn_bound,           \* the local names main() has bound
    mn_exc,             \* the exception in flight, "none" when there is none
    mn_original,        \* the first exception raised in the try block
    mn_cleanups,        \* parser.cleanup() calls made by the finally block
    mn_notified,        \* notifier.send_message calls made by the except block
    \* ---- ConfigManager.save_config
    cm_pc,              \* where save_config is
    cm_new,             \* the configuration it was given
    cm_backup,          \* the backup file the rename made
    cm_memory           \* the section configs the ConfigManager holds

analyzerVars == <<lang_lru, sent_lru, translation_cache>>
callerVars == <<an_text, an_result, an_calls>>
batchVars ==
    <<b_texts, max_workers, b_pc, futures, done_order, snapshot, yielded,
      results>>
extractVars == <<x_elements, x_parsed, x_pc, x_reviews>>
parserVars ==
    <<max_retries, _driver, p_pc, attempt, loads, attempts_log, waited,
      created, quits, quit_errors, sessions, active, parses,
      parse_result, extractVars>>
configVars == <<cm_pc, cm_new, cm_backup, cm_memory>>
procVars ==
    <<config_file, mn_pc, mn_bound, mn_exc, mn_original, mn_cleanups,
      mn_notified, configVars>>
storeVars == <<cache_file, load_exc>>
pipeVars ==
    <<cache, cache_in, m_pc, new_reviews, idx, analyzer_calls, failed,
      runs, storeVars>>
mainVars == <<pipeVars, procVars>>
vars == <<analyzerVars, callerVars, batchVars, parserVars, mainVars>>

----------------------------------------------------------------------------
(* Bounds *)

MaxLen == 2          \* longest text given to the analyzer
MaxCalls == 1        \* calls of analyze_sentiment in one analyzer lifetime
MaxBatch == 2        \* longest list given to analyze_batch
MaxWorkers == 2      \* widest worker pool
MaxRetries == 1      \* largest max_retries
MaxFetched == 2      \* longest list of reviews a page yields
MaxRuns == 2         \* runs of process_reviews_batch in one process
MaxParserRetries == 3   \* largest max_retries of a parser used on its own
MaxParses == 2       \* calls of parse_reviews on one parser
MaxElements == 2     \* review elements on a page whose extraction is followed
MaxRepeats == 1      \* further calls of analyze_sentiment with the same text

----------------------------------------------------------------------------
(* Characters and texts *)

WordChars == {"a"}              \* matched by \w
Whitespace == {" "}             \* matched by \s
KeptPunct == {"!"}              \* the literal . , ! ? - of the first pattern
SpecialChars == {"@"}           \* everything else
AlphabetSeq == <<"a", " ", "@", "!">>

\* the characters the generated texts are made of
TextAlphabet == {"a", " ", "@"}
TextsUpTo(n) == UNION {[1..k -> TextAlphabet] : k \in 0..n}

\* Python values that reach analyze_sentiment
PyStr(s) == [type |-> "str", s |-> s, n |-> 0]
PyNone == [type |-> "NoneType", s |-> <<>>, n |-> 0]
PyInt(n) == [type |-> "int", s |-> <<>>, n |-> n]
PyList(n) == [type |-> "list", s |-> <<>>, n |-> n]

\* bool(v)
Truthy(v) ==
    CASE v.type = "str" -> v.s # <<>>
      [] v.type = "NoneType" -> FALSE
      [] v.type = "int" -> v.n # 0
      [] v.type = "list" -> v.n # 0

\* `not text or not isinstance(text, str)`
NotUsableText(v) == ~Truthy(v) \/ v.type # "str"

----------------------------------------------------------------------------
(* SentimentAnalyzer._preprocess_text *)

\* re.sub(r'[^\w\s.,!?-]', ' ', text)
RECURSIVE ReplaceSpecial(_)
ReplaceSpecial(s) ==
    IF s = <<>> THEN <<>>
    ELSE <<IF Head(s) \in WordChars \cup Whitespace \cup KeptPunct
           THEN Head(s) ELSE " ">> \o ReplaceSpecial(Tail(s))

\* re.sub(r'\s+', ' ', text)
RECURSIVE CollapseWhitespace(_)
CollapseWhitespace(s) ==
    IF s = <<>> THEN <<>>
    ELSE IF Head(s) \in Whitespace
         THEN IF Tail(s) # <<>> /\ Head(Tail(s)) \in Whitespace
              THEN CollapseWhitespace(Tail(s))
              ELSE <<" ">> \o CollapseWhitespace(Tail(s))
         ELSE <<Head(s)>> \o CollapseWhitespace(Tail(s))

RECURSIVE LStrip(_)
LStrip(s) ==
    IF s # <<>> /\ Head(s) \in Whitespace THEN LStrip(Tail(s)) ELSE s

RECURSIVE RStrip(_)
RStrip(s) ==
    IF s # <<>> /\ s[Len(s)] \in Whitespace
    THEN RStrip(SubSeq(s, 1, Len(s) - 1)) ELSE s

\* a strip that removes nothing
Strip_nothing(s) == s
\* str.strip()
Strip(s) == RStrip(LStrip(s))

_preprocess_text(v) ==
    IF NotUsableText(v) THEN <<>>
    ELSE Strip(CollapseWhitespace(ReplaceSpecial(v.s)))

----------------------------------------------------------------------------
(* Collaborators of the analyzer: langdetect, googletrans, TextBlob.       *)
(* What each of them does during one call is drawn from these sets.        *)

target_language == "en"
Languages == {"en", "ru"}
DetectOutcomes == Languages \cup {"LangDetectException", "Exception"}
TranslateOutcomes == {"same", "translated", "Exception"}
Polarities == {-5, 5}
ScoreOutcomes ==
    {[raises |-> TRUE, polarity |-> 0]}
        \cup {[raises |-> FALSE, polarity |-> p] : p \in Polarities}

\* unexpected: an exception raised inside the try block of analyze_sentiment
\* outside the collaborators' own handlers
Oracles ==
    [detect : DetectOutcomes, translate : TranslateOutcomes,
     score : ScoreOutcomes, unexpected : BOOLEAN]

\* the text googletrans answers with
GoogleTranslation(text) == <<"a">> \o text

\* dict lookup / insertion
Has(d, k) == k \in DOMAIN d
Put(d, k, v) == [x \in DOMAIN d \cup {k} |-> IF x = k THEN v ELSE d[x]]
EmptyDict == [x \in {} |-> 0]

\* SentimentAnalyzer._detect_language under lru_cache
_detect_language(text, outcome, lru) ==
    IF Has(lru, text)
    THEN [value |-> lru[text], lru |-> lru, failed |-> FALSE]
    ELSE LET v == IF text = <<>> THEN "unknown"
                  ELSE IF outcome \in Languages THEN outcome
                  ELSE "unknown"
         IN [value |-> v, lru |-> Put(lru, text, v),
             failed |-> text # <<>> /\ outcome \notin Languages]

\* SentimentAnalyzer._get_sentiment under lru_cache
_get_sentiment(text, outcome, lru) ==
    IF Has(lru, text)
    THEN [value |-> lru[text], lru |-> lru, failed |-> FALSE]
    ELSE LET v == IF text = <<>> THEN 0
                  ELSE IF outcome.raises THEN 0
                  ELSE outcome.polarity
         IN [value |-> v, lru |-> Put(lru, text, v),
             failed |-> text # <<>> /\ outcome.raises]

\* TextTranslator.translate; its lru_cache holds only translations that are
\* also in TranslationCache.cache, so one table stands for both
translate(text, outcome, tc) ==
    IF text = <<>>
    THEN [raised |-> FALSE, value |-> text, cache |-> tc]
    ELSE IF Has(tc, text)
    THEN [raised |-> FALSE, value |-> tc[text], cache |-> tc]
    ELSE CASE outcome = "same" ->
                [raised |-> FALSE, value |-> text,
                 cache |-> Put(tc, text, text)]
           [] outcome = "translated" ->
                [raised |-> FALSE, value |-> GoogleTranslation(text),
                 cache |-> Put(tc, text, GoogleTranslation(text))]
           [] OTHER ->
                [raised |-> TRUE, value |-> <<>>, cache |-> tc]

----------------------------------------------------------------------------
(* SentimentAnalyzer.analyze_sentiment *)

\* what one call did: the pair returned (or the escape of an exception), the
\* three tables afterwards, which collaborator failed, and the text scored
Analysis(exc, pol, language, lang, sent, trans, df, tf, sf, scored, st) ==
    [raised |-> exc, sentiment |-> pol, language |-> language,
     lang_lru |-> lang, sent_lru |-> sent, translation_cache |-> trans,
     detect_failed |-> df, translate_failed |-> tf, score_failed |-> sf,
     scored |-> scored, scored_text |-> st]

\* the result of the guard clauses and of the outer handler: 0.0, 'unknown'
Fallback(lang, sent, trans) ==
    Analysis(FALSE, 0, "unknown", lang, sent, trans,
             FALSE, FALSE, FALSE, FALSE, <<>>)

\* a handler that lets the translation failure escape
TranslationFailed_reraise(d, sent, t) ==
    Analysis(TRUE, 0, "unknown", d.lru, sent, t.cache, d.failed, TRUE,
             FALSE, FALSE, <<>>)
\* a handler that scores the text it could not translate
TranslationFailed_scoring(d, sent, t) ==
    Analysis(FALSE, 5, d.value, d.lru, sent, t.cache, d.failed, TRUE,
             FALSE, TRUE, <<"a">>)
\* the handler of the inner try: `return 0.0, detected_lang`
TranslationFailed(d, sent, t) ==
    Analysis(FALSE, 0, d.value, d.lru, sent, t.cache, d.failed, TRUE,
             FALSE, FALSE, <<>>)

analyze_sentiment(v, o, lang, sent, trans) ==
    IF NotUsableText(v)
    THEN Fallback(lang, sent, trans)
    ELSE LET text == _preprocess_text(v)
         IN IF o.unexpected
            THEN Fallback(lang, sent, trans)
            ELSE IF text = <<>>
            THEN Fallback(lang, sent, trans)
            ELSE LET d == _detect_language(text, o.detect, lang)
                 IN IF d.value # target_language
                    THEN LET t == translate(text, o.translate, trans)
                         IN IF t.raised
                            THEN TranslationFailed(d, sent, t)
                            ELSE LET s == _get_sentiment(t.value, o.score,
                                                         sent)
                                 IN Analysis(FALSE, s.value, d.value, d.lru,
                                             s.lru, t.cache, d.failed,
                                             FALSE, s.failed, TRUE, t.value)
                    ELSE LET s == _get_sentiment(text, o.score, sent)
                         IN Analysis(FALSE, s.value, d.value, d.lru, s.lru,
                                     trans, d.failed, FALSE, s.failed, TRUE,
                                     text)

----------------------------------------------------------------------------
(* ConfigManager: config.json and its validation *)

PyFloat(n) == [type |-> "float", s |-> <<>>, n |-> n]

Sections ==
    {"parser", "analyzer", "notifier", "cache", "logging", "security"}
valid_levels == {"DEBUG", "INFO", "WARNING", "ERROR", "CRITICAL"}

\* a config.json: the sections it has and the values main() and
\* _validate_config look at (min_confidence in tenths)
ConfigFile(ex, secs, mr, tm, mc, en, tok, chat, ms, lvl, noe, ce) ==
    [exists |-> ex, sections |-> secs, max_retries |-> mr, timeout |-> tm,
     min_confidence |-> mc, enabled |-> en, telegram_token |-> tok,
     chat_id |-> chat, max_size |-> ms, level |-> lvl,
     notify_on_error |-> noe, cache_enabled |-> ce]

\* the defaults of ParserConfig, AnalyzerConfig, NotifierConfig, CacheConfig
\* and LoggingConfig, which _create_default_config writes out
DefaultConfig ==
    ConfigFile(TRUE, Sections, PyInt(3), PyInt(10), PyFloat(6), TRUE, "", "",
               PyInt(1000), "INFO", TRUE, TRUE)

\* no config.json
NoFile == [DefaultConfig EXCEPT !.exists = FALSE]

ConfigFiles ==
    {ConfigFile(TRUE, secs, mr, tm, mc, en, tok, chat, ms, lvl, noe, ce) :
        secs \in {Sections, Sections \ {"security"}},
        mr \in {PyNone, PyInt(0), PyInt(1), PyInt(3), PyFloat(20)},
        tm \in {PyInt(0), PyInt(10)},
        mc \in {PyFloat(-1), PyFloat(0), PyFloat(6), PyFloat(10), PyFloat(11)},
        en \in BOOLEAN,
        tok \in {"", "token"},
        chat \in {"", "chat"},
        ms \in {PyInt(0), PyInt(1000)},
        lvl \in {"INFO", "TRACE"},
        noe \in BOOLEAN,
        ce \in BOOLEAN}

\* a validation that asks for the token only
_validate_config_no_chat(c) ==
    /\ c.sections = Sections
    /\ c.max_retries.type = "int" /\ c.max_retries.n >= 1
    /\ c.timeout.type = "int" /\ c.timeout.n >= 1
    /\ c.min_confidence.type \in {"int", "float"}
    /\ 0 <= c.min_confidence.n /\ c.min_confidence.n <= 10
    /\ c.enabled => c.telegram_token # ""
    /\ c.max_size.type = "int" /\ c.max_size.n >= 1
    /\ c.level \in valid_levels
\* ConfigManager._validate_config: TRUE when it raises nothing
_validate_config(c) ==
    /\ c.sections = Sections
    /\ c.max_retries.type = "int" /\ c.max_retries.n >= 1
    /\ c.timeout.type = "int" /\ c.timeout.n >= 1
    /\ c.min_confidence.type \in {"int", "float"}
    /\ 0 <= c.min_confidence.n /\ c.min_confidence.n <= 10
    /\ c.enabled => (c.telegram_token # "" /\ c.chat_id # "")
    /\ c.max_size.type = "int" /\ c.max_size.n >= 1
    /\ c.level \in valid_levels

\* ConfigManager.load_config: a missing file is first created from the
\* defaults by save_config, which validates before it writes
load_config(file) ==
    LET written == IF file.exists THEN file
                   ELSE IF _validate_config(DefaultConfig) THEN DefaultConfig
                   ELSE file
    IN IF written.exists /\ _validate_config(written)
       THEN [raised |-> FALSE, exc |-> "none", file |-> written]
       ELSE [raised |-> TRUE, exc |-> "ValueError", file |-> written]

\* a ConfigManager as __init__ leaves it: the section configs hold their
\* defaults, and save_config has not been called
IdleConfig ==
    /\ cm_pc = "idle"
    /\ cm_new = NoFile
    /\ cm_backup = NoFile
    /\ cm_memory = DefaultConfig

\* main() has not been called
IdleProc ==
    /\ IdleConfig
    /\ config_file = NoFile
    /\ mn_pc = "idle"
    /\ mn_bound = {}
    /\ mn_exc = "none"
    /\ mn_original = "none"
    /\ mn_cleanups = 0
    /\ mn_notified = 0

----------------------------------------------------------------------------
(* SpecAnalyze: one caller applies analyze_sentiment to arbitrary values.  *)

AnalyzerInputs ==
    {PyNone, PyInt(0), PyInt(123), PyList(0), PyList(1)}
        \cup {PyStr(s) : s \in TextsUpTo(MaxLen)}

NoAnalysis ==
    Analysis(FALSE, 0, "none", EmptyDict, EmptyDict, EmptyDict,
             FALSE, FALSE, FALSE, FALSE, <<>>)

InitAnalyzer ==
    /\ lang_lru = EmptyDict
    /\ sent_lru = EmptyDict
    /\ translation_cache = EmptyDict

InitCaller ==
    /\ an_text = PyNone
    /\ an_result = NoAnalysis
    /\ an_calls = 0

CallAnalyze ==
    /\ an_calls < MaxCalls
    /\ \E v \in AnalyzerInputs, o \in Oracles :
        LET r == analyze_sentiment(v, o, lang_lru, sent_lru,
                                   translation_cache)
        IN /\ an_text' = v
           /\ an_result' = r
           /\ lang_lru' = r.lang_lru
           /\ sent_lru' = r.sent_lru
           /\ translation_cache' = r.translation_cache
    /\ an_calls' = an_calls + 1
    /\ UNCHANGED <<batchVars, parserVars, mainVars>>

\* ReviewParser.__init__ with the default max_retries; no call in progress
NoParse ==
    [kind |-> "none", error |-> "none", reviews |-> <<>>, page |-> "none"]

\* no extraction in progress
IdleExtract ==
    /\ x_elements = <<>>
    /\ x_parsed = <<>>
    /\ x_pc = "idle"
    /\ x_reviews = <<>>

InitParserWith(k) ==
    /\ IdleExtract
    /\ max_retries = k
    /\ _driver = "None"
    /\ p_pc = "idle"
    /\ attempt = 0
    /\ loads = 0
    /\ attempts_log = <<>>
    /\ waited = 0
    /\ created = 0
    /\ quits = 0
    /\ quit_errors = 0
    /\ sessions = <<>>
    /\ active = 0
    /\ parses = 0
    /\ parse_result = NoParse

IdleParser == InitParserWith(3)

\* process_reviews_batch has not been called; no reviews_cache.json
IdlePipe ==
    /\ cache = <<>>
    /\ cache_in = <<>>
    /\ m_pc = "idle"
    /\ new_reviews = <<>>
    /\ idx = 0
    /\ analyzer_calls = 0
    /\ failed = {}
    /\ runs = 0
    /\ cache_file = <<>>
    /\ load_exc = "none"

IdleMain == IdlePipe /\ IdleProc

\* analyze_batch is not running
IdleBatch ==
    /\ b_texts = <<>>
    /\ max_workers = 1
    /\ b_pc = "idle"
    /\ futures = <<>>
    /\ done_order = <<>>
    /\ snapshot = {}
    /\ yielded = {}
    /\ results = <<>>

InitAnalyze ==
    InitAnalyzer /\ InitCaller /\ IdleBatch /\ IdleParser /\ IdleMain
NextAnalyze == CallAnalyze
SpecAnalyze == InitAnalyze /\ [][NextAnalyze]_vars

----------------------------------------------------------------------------
(* SpecRepeat: analyze_sentiment is called with one value and then again   *)
(* with the same value, the collaborators answering each call as they      *)
(* like.                                                                   *)

FirstCall ==
    /\ an_calls = 0
    /\ CallAnalyze

\* the same analyzer instance is given the same value once more
CallAgain ==
    /\ an_calls >= 1
    /\ an_calls < 1 + MaxRepeats
    /\ \E o \in Oracles :
        LET r == analyze_sentiment(an_text, o, lang_lru, sent_lru,
                                   translation_cache)
        IN /\ an_result' = r
           /\ lang_lru' = r.lang_lru
           /\ sent_lru' = r.sent_lru
           /\ translation_cache' = r.translation_cache
    /\ an_calls' = an_calls + 1
    /\ UNCHANGED an_text
    /\ UNCHANGED <<batchVars, parserVars, mainVars>>

NextRepeat ==
    \/ FirstCall
    \/ CallAgain

SpecRepeat == InitAnalyze /\ [][NextRepeat]_vars

----------------------------------------------------------------------------
(* SpecPool: SentimentAnalyzer.analyze_batch, its ThreadPoolExecutor and   *)
(* the as_completed loop.                                                  *)

BatchInputs == {PyStr(<<"a">>), PyNone}
BatchLists == UNION {[1..n -> BatchInputs] : n \in 0..MaxBatch}

\* what a future holds: nothing yet, a returned pair, or an exception
NoResult == [raised |-> FALSE, pair |-> <<0, "none">>]

\* what a worker thread holds while it runs analyze_sentiment: where it is,
\* whether its lookup in the lru_cache of _detect_language missed, the
\* detected language, the preprocessed text and the text to be scored
Local(at, miss, lang, key, text) ==
    [at |-> at, miss |-> miss, lang |-> lang, key |-> key, text |-> text]
NoLocal == Local("none", FALSE, "none", <<>>, <<>>)

Future(state, local, result) ==
    [state |-> state, local |-> local, result |-> result]

\* what detect() and TextBlob answer in the pool; their failures are
\* exercised under SpecAnalyze
PoolDetectOutcomes == Languages
PoolScoreOutcomes == {o \in ScoreOutcomes : ~o.raises}

\* a dict without the key k
Without(d, k) == [x \in DOMAIN d \ {k} |-> d[x]]

\* a dict keyed by the text: equal texts share one entry
future_to_text_by_text(texts) ==
    {i \in 1..Len(texts) : \A j \in 1..(i - 1) : texts[j] # texts[i]}
\* the keys of future_to_text: one future for each element of texts
future_to_text(texts) == 1..Len(texts)

Pending == {i \in 1..Len(futures) : futures[i].state = "pending"}
Running == {i \in 1..Len(futures) : futures[i].state = "running"}
Finished == {i \in 1..Len(futures) : futures[i].state = "finished"}
\* the workers that are at `at` in analyze_sentiment
At(at) == {i \in Running : futures[i].local.at = at}

InitPool ==
    /\ InitAnalyzer
    /\ InitCaller
    /\ IdleParser
    /\ IdleMain
    /\ b_texts \in BatchLists
    /\ max_workers \in 1..MaxWorkers
    /\ b_pc = "called"
    /\ futures = <<>>
    /\ done_order = <<>>
    /\ snapshot = {}
    /\ yielded = {}
    /\ results = <<>>

\* `if not texts: return []`, else enter the executor
Enter ==
    /\ b_pc = "called"
    /\ b_pc' = IF b_texts = <<>> THEN "returned" ELSE "submit"
    /\ UNCHANGED <<b_texts, max_workers, futures, done_order, snapshot,
                   yielded, results>>
    /\ UNCHANGED <<analyzerVars, callerVars, parserVars, mainVars>>

\* executor.submit(self.analyze_sentiment, text) for the next text
Submit ==
    /\ b_pc = "submit"
    /\ Len(futures) < Len(b_texts)
    /\ futures' = Append(futures, Future("pending", NoLocal, NoResult))
    /\ UNCHANGED <<b_texts, max_workers, b_pc, done_order, snapshot,
                   yielded, results>>
    /\ UNCHANGED <<analyzerVars, callerVars, parserVars, mainVars>>

\* a worker thread takes the oldest work item of the queue and calls
\* analyze_sentiment
WorkerTake ==
    /\ Pending # {}
    /\ Cardinality(Running) < max_workers
    /\ LET i == CHOOSE k \in Pending : \A j \in Pending : k <= j
       IN futures' = [futures EXCEPT ![i] =
            Future("running", Local("entry", FALSE, "none", <<>>, <<>>),
                   NoResult)]
    /\ UNCHANGED <<b_texts, max_workers, b_pc, done_order, snapshot,
                   yielded, results>>
    /\ UNCHANGED <<analyzerVars, callerVars, parserVars, mainVars>>

\* analyze_sentiment returns in worker i: the future gets its result
Finish(i, sentiment, language) ==
    /\ futures' = [futures EXCEPT ![i] =
            Future("finished", [futures[i].local EXCEPT !.at = "done"],
                   [raised |-> FALSE, pair |-> <<sentiment, language>>])]
    /\ done_order' = Append(done_order, i)

\* worker i moves on inside analyze_sentiment
Goto(i, local) ==
    /\ futures' = [futures EXCEPT ![i].local = local]
    /\ UNCHANGED done_order

\* lines 61-71: the guard clauses, _preprocess_text and the lookup that the
\* lru_cache wrapper of _detect_language makes before it calls the function
WorkerEnter ==
    /\ \E i \in At("entry"), unexpected \in BOOLEAN :
        LET v == b_texts[i]
            text == _preprocess_text(v)
        IN IF NotUsableText(v) \/ unexpected \/ text = <<>>
           THEN Finish(i, 0, "unknown")
           ELSE Goto(i, Local("detect", ~Has(lang_lru, text), "none", text,
                              text))
    /\ UNCHANGED <<b_texts, max_workers, b_pc, snapshot, yielded, results>>
    /\ UNCHANGED <<analyzerVars, callerVars, parserVars, mainVars>>

\* lines 71-79: after a miss detect() is called and the wrapper stores its
\* answer unless the key was stored meanwhile; then, for a language other
\* than the target, translate() looks the text up and asks googletrans
WorkerDetect ==
    /\ \E i \in At("detect"), det \in PoolDetectOutcomes,
          tr \in TranslateOutcomes :
        LET l == futures[i].local
            seen == IF l.miss THEN Without(lang_lru, l.key) ELSE lang_lru
            d == _detect_language(l.key, det, seen)
            t == translate(l.key, tr, translation_cache)
        IN /\ lang_lru' = IF Has(lang_lru, l.key) THEN lang_lru ELSE d.lru
           /\ IF d.value = target_language
              THEN Goto(i, [l EXCEPT !.at = "score", !.lang = d.value])
              ELSE IF t.raised
              THEN Finish(i, 0, d.value)
              ELSE IF Has(translation_cache, l.key)
              THEN Goto(i, [l EXCEPT !.at = "score", !.lang = d.value,
                                     !.text = t.value])
              ELSE Goto(i, [l EXCEPT !.at = "cache_translation",
                                     !.lang = d.value, !.text = t.value])
    /\ UNCHANGED <<sent_lru, translation_cache>>
    /\ UNCHANGED <<b_texts, max_workers, b_pc, snapshot, yielded, results>>
    /\ UNCHANGED <<callerVars, parserVars, mainVars>>

\* TranslationCache.cache_translation: the worker, which has been inside it
\* since googletrans answered, writes the entry and the file and leaves
WorkerCacheTranslation ==
    /\ \E i \in At("cache_translation") :
        LET l == futures[i].local
        IN /\ translation_cache' = Put(translation_cache, l.key, l.text)
           /\ Goto(i, [l EXCEPT !.at = "score"])
    /\ UNCHANGED <<lang_lru, sent_lru>>
    /\ UNCHANGED <<b_texts, max_workers, b_pc, snapshot, yielded, results>>
    /\ UNCHANGED <<callerVars, parserVars, mainVars>>

\* lines 82-84: _get_sentiment under its lru_cache, then the return
WorkerScore ==
    /\ \E i \in At("score"), sc \in PoolScoreOutcomes :
        LET l == futures[i].local
            s == _get_sentiment(l.text, sc, sent_lru)
        IN /\ sent_lru' = s.lru
           /\ Finish(i, s.value, l.lang)
    /\ UNCHANGED <<lang_lru, translation_cache>>
    /\ UNCHANGED <<b_texts, max_workers, b_pc, snapshot, yielded, results>>
    /\ UNCHANGED <<callerVars, parserVars, mainVars>>

\* as_completed(future_to_text) is called: the futures already finished are
\* set aside, the others are waited for
AsCompleted ==
    /\ b_pc = "submit"
    /\ Len(futures) = Len(b_texts)
    /\ snapshot' = Finished \cap future_to_text(b_texts)
    /\ b_pc' = "as_completed"
    /\ UNCHANGED <<b_texts, max_workers, futures, done_order, yielded,
                   results>>
    /\ UNCHANGED <<analyzerVars, callerVars, parserVars, mainVars>>

\* the body of the for loop: future.result() is appended, or (0.0, 'unknown')
\* when the future holds an exception
Collect(i) ==
    /\ results' = Append(results, IF futures[i].result.raised
                                  THEN <<0, "unknown">>
                                  ELSE futures[i].result.pair)
    /\ yielded' = yielded \cup {i}

\* as_completed yields a future that was finished when it was called; these
\* come out of a set, in no particular order
YieldFinished ==
    /\ b_pc = "as_completed"
    /\ \E i \in snapshot \ yielded : Collect(i)
    /\ UNCHANGED <<b_texts, max_workers, b_pc, futures, done_order,
                   snapshot>>
    /\ UNCHANGED <<analyzerVars, callerVars, parserVars, mainVars>>

\* the futures that finished after the call, in the order they finished
Waited ==
    SelectSeq(done_order,
              LAMBDA i : i \in future_to_text(b_texts) /\ i \notin snapshot)

\* as_completed yields the next future that finished while it waited
YieldWaited ==
    /\ b_pc = "as_completed"
    /\ snapshot \subseteq yielded
    /\ \E k \in 1..Len(Waited) :
        /\ Waited[k] \notin yielded
        /\ \A j \in 1..(k - 1) : Waited[j] \in yielded
        /\ Collect(Waited[k])
    /\ UNCHANGED <<b_texts, max_workers, b_pc, futures, done_order,
                   snapshot>>
    /\ UNCHANGED <<analyzerVars, callerVars, parserVars, mainVars>>

\* the loop is exhausted, the executor shuts down (every worker has
\* finished) and results is returned
Return ==
    /\ b_pc = "as_completed"
    /\ yielded = future_to_text(b_texts)
    /\ Pending = {} /\ Running = {}
    /\ b_pc' = "returned"
    /\ UNCHANGED <<b_texts, max_workers, futures, done_order, snapshot,
                   yielded, results>>
    /\ UNCHANGED <<analyzerVars, callerVars, parserVars, mainVars>>

\* sum(s[0] for s in sentiments)
RECURSIVE SumOf(_)
SumOf(sentiments) ==
    IF sentiments = <<>> THEN 0
    ELSE sentiments[1][1] + SumOf(Tail(sentiments))

\* SentimentAnalyzer.get_sentiment_stats, applied to what analyze_batch
\* returned. A quotient a / b is the pair <<a, b>>; sentiments are tenths.
get_sentiment_stats(sentiments) ==
    IF sentiments = <<>>
    THEN [average |-> <<0, 1>>, positive |-> <<0, 1>>,
          negative |-> <<0, 1>>, neutral |-> <<0, 1>>]
    ELSE LET total == Len(sentiments)
             all == 1..total
             s0(k) == sentiments[k][1]
         IN [average |-> <<SumOf(sentiments), total>>,
             positive |-> <<Cardinality({k \in all : s0(k) > 3}), total>>,
             negative |-> <<Cardinality({k \in all : s0(k) < -3}), total>>,
             neutral |->
                <<Cardinality({k \in all : -3 <= s0(k) /\ s0(k) <= 3}),
                  total>>]

NextPool ==
    \/ Enter
    \/ Submit
    \/ WorkerTake
    \/ WorkerEnter
    \/ WorkerDetect
    \/ WorkerCacheTranslation
    \/ WorkerScore
    \/ AsCompleted
    \/ YieldFinished
    \/ YieldWaited
    \/ Return

SpecPool == InitPool /\ [][NextPool]_vars

----------------------------------------------------------------------------
(* ReviewParser: _load_reviews, cleanup, parse_reviews *)

Review(text, rating, author, date) ==
    [text |-> text, rating |-> rating, author |-> author, date |-> date]

\* what find_element(By.CSS_SELECTOR, selector) meets inside a review
\* element: a sub-element with this text, or an exception. A string is a
\* sequence of characters; a name or a date, which nothing takes apart, is
\* written as one piece.
Sel(value, exc) == [value |-> value, exc |-> exc]
Found(value) == Sel(value, "none")
Raises(exc) == Sel(<<>>, exc)

\* a review element of the page: what each of the four selectors meets
Element(text, rating, author, date) ==
    [text |-> text, rating |-> rating, author |-> author, date |-> date]

\* ReviewParser._get_element_text: the stripped text; None when the
\* sub-element is missing or stale; any other exception gets out
_get_element_text(sel) ==
    CASE sel.exc = "none" ->
            [raised |-> FALSE, none |-> FALSE, value |-> Strip(sel.value)]
      [] sel.exc \in {"NoSuchElementException",
                      "StaleElementReferenceException"} ->
            [raised |-> FALSE, none |-> TRUE, value |-> <<>>]
      [] OTHER ->
            [raised |-> TRUE, none |-> FALSE, value |-> <<>>]

\* `not text` for what _get_element_text returned
Falsy(t) == t.none \/ t.value = <<>>

\* rating_text.split()[0] for a stripped, non-empty string
RECURSIVE FirstToken(_)
FirstToken(s) ==
    IF s = <<>> \/ Head(s) \in Whitespace THEN <<>>
    ELSE <<Head(s)>> \o FirstToken(Tail(s))

\* float(token), for the tokens of this model; anything else is a
\* ValueError
ParseFloat(token) ==
    CASE token = <<"0">> -> [ok |-> TRUE, value |-> 0]
      [] token = <<"1">> -> [ok |-> TRUE, value |-> 1]
      [] token = <<"5">> -> [ok |-> TRUE, value |-> 5]
      [] token = <<"6">> -> [ok |-> TRUE, value |-> 6]
      [] token = <<"-", "1">> -> [ok |-> TRUE, value |-> -1]
      [] OTHER -> [ok |-> FALSE, value |-> 0]

\* the None that _parse_review_element returns for a discarded record
None == Review(<<>>, -1, <<>>, <<>>)

\* datetime.now().strftime('%Y-%m-%d')
Today == <<"2024-01-03">>

\* a range check that lets every parsed rating through
InRange_any(rating) == TRUE
\* `0 <= rating <= 5`
InRange(rating) == 0 <= rating /\ rating <= 5

\* ReviewParser._parse_review_element: the Review, or None for a record
\* without text, without rating, with a rating that does not parse or is
\* out of range, or whose extraction raised
_parse_review_element(el) ==
    LET text == _get_element_text(el.text)
        rating_text == _get_element_text(el.rating)
        rating == ParseFloat(FirstToken(rating_text.value))
        author == _get_element_text(el.author)
        date == _get_element_text(el.date)
    IN IF text.raised \/ Falsy(text) THEN None
       ELSE IF rating_text.raised \/ Falsy(rating_text) THEN None
       ELSE IF ~rating.ok THEN None
       ELSE IF ~InRange(rating.value) THEN None
       ELSE IF author.raised \/ date.raised THEN None
       ELSE Review(text.value, rating.value,
                   IF Falsy(author) THEN <<"Anonymous">> ELSE author.value,
                   IF Falsy(date) THEN Today ELSE date.value)

\* list(filter(None, executor.map(self._parse_review_element, elements)))
ExtractReviews(elements) ==
    SelectSeq([i \in 1..Len(elements) |->
                    _parse_review_element(elements[i])],
              LAMBDA r : r # None)

\* the review elements of the pages the pipeline fetches
PageElements ==
    {Element(Found(<<"a">>), Found(<<"5">>), Found(<<"Ann">>),
             Found(<<"2024-01-01">>)),
     Element(Found(<<"a", "@">>), Found(<<"1">>), Found(<<"Bob">>),
             Found(<<"2024-01-02">>)),
     Element(Found(<<"a">>), Found(<<"6">>), Found(<<"Eve">>),
             Found(<<"2024-01-02">>))}

\* the reviews a page can show, and the lists _load_reviews extracts
PageReviews == {_parse_review_element(el) : el \in PageElements} \ {None}
FetchedLists ==
    {ExtractReviews(es) :
        es \in UNION {[1..n -> PageElements] : n \in 1..MaxFetched}}

\* what one call of _load_reviews meets: whether a session can be created,
\* how driver.get and the page end (an exception, a page that loaded
\* without any '.review-container' element, or a page with elements), and
\* the reviews extracted from the elements
LoadOracles ==
    [init_ok : BOOLEAN,
     page : {"TimeoutException", "WebDriverException", "Exception",
             "no_elements"},
     reviews : {<<>>}]
        \cup [init_ok : BOOLEAN, page : {"ok"}, reviews : FetchedLists]

\* a property that opens a session at every access
driver_property_eager(drv, init_ok) ==
    [raised |-> ~init_ok, driver |-> IF init_ok THEN "open" ELSE drv,
     created |-> IF init_ok THEN 1 ELSE 0]
\* the property ReviewParser.driver: a session is created when none is held,
\* and a failure to create one is raised as NetworkError
driver_property(drv, init_ok) ==
    IF drv = "None"
    THEN [raised |-> ~init_ok, driver |-> IF init_ok THEN "open" ELSE "None",
          created |-> IF init_ok THEN 1 ELSE 0]
    ELSE [raised |-> FALSE, driver |-> drv, created |-> 0]

\* how quit() ends
QuitOutcomes == {"ok", "WebDriverException"}

\* a cleanup that calls quit() and keeps the reference
cleanup_no_clear(drv, q) ==
    IF drv = "None"
    THEN [driver |-> "None", quits |-> 0, errors |-> 0]
    ELSE [driver |-> drv, quits |-> 1, errors |-> IF q = "ok" THEN 0 ELSE 1]
\* a cleanup that clears the reference only after a quit() that succeeded
cleanup_no_finally(drv, q) ==
    IF drv = "None"
    THEN [driver |-> "None", quits |-> 0, errors |-> 0]
    ELSE [driver |-> IF q = "ok" THEN "None" ELSE drv, quits |-> 1,
          errors |-> IF q = "ok" THEN 0 ELSE 1]
\* a cleanup that keeps the session
cleanup_keep(drv, q) == [driver |-> drv, quits |-> 0, errors |-> 0]
\* ReviewParser.cleanup: quit() is called when a session is held; whether or
\* not it raises, _driver and _wait are cleared and nothing is raised
cleanup(drv, q) ==
    IF drv = "None"
    THEN [driver |-> "None", quits |-> 0, errors |-> 0]
    ELSE [driver |-> "None", quits |-> 1,
          errors |-> IF q = "ok" THEN 0 ELSE 1]

\* the handlers of _load_reviews. The NetworkError the driver property
\* raises ("driver") is neither a TimeoutException nor a WebDriverException:
\* the last handler turns it into a ParsingError.
Classify(e) ==
    CASE e = "TimeoutException" -> "NetworkError"
      [] e = "WebDriverException" -> "NetworkError"
      [] OTHER -> "ParsingError"

\* self.wait.until(EC.presence_of_all_elements_located(...)): the
\* condition answers with the list find_elements gives, and until() returns
\* an answer only when it is truthy; with no element on the page the list
\* stays empty and until() ends in TimeoutException
wait_until(page) == IF page = "no_elements" THEN "TimeoutException" ELSE page

\* ReviewParser._load_reviews, with the driver property it goes through
_load_reviews(drv, o) ==
    LET d == driver_property(drv, o.init_ok)
        w == wait_until(o.page)
    IN IF d.raised
       THEN [kind |-> Classify("driver"), error |-> "driver",
             reviews |-> <<>>, driver |-> d.driver, created |-> d.created,
             page |-> "none"]
       ELSE IF w = "ok"
       THEN [kind |-> "list", error |-> "none", reviews |-> o.reviews,
             driver |-> d.driver, created |-> d.created, page |-> o.page]
       ELSE [kind |-> Classify(w), error |-> w, reviews |-> <<>>,
             driver |-> d.driver, created |-> d.created, page |-> o.page]

\* a test that is never true inside the loop
IsLastAttempt_never(a, k) == a = k
\* a test that gives up after the first failure
IsLastAttempt_first(a, k) == a = 0
\* `attempt == self.max_retries - 1`
IsLastAttempt(a, k) == a = k - 1

\* a handler that retries whatever was raised
Retried_any(kind, last) == kind # "list" /\ ~last
\* `except NetworkError` when it is not the last attempt: the call sleeps,
\* cleans up and goes round the loop again
Retried(kind, last) == kind = "NetworkError" /\ ~last

\* a delay that does not grow
Pow2_flat(n) == 2
\* 2 ** attempt
RECURSIVE Pow2(_)
Pow2(n) == IF n <= 0 THEN 1 ELSE 2 * Pow2(n - 1)

\* parse_reviews is entered
StartParse ==
    /\ p_pc' = "loop"
    /\ attempt' = 0
    /\ loads' = 0
    /\ attempts_log' = <<>>
    /\ waited' = 0
    /\ created' = 0
    /\ quits' = 0
    /\ quit_errors' = 0
    /\ sessions' = <<>>
    /\ parse_result' = NoParse
    /\ UNCHANGED <<max_retries, _driver, active, extractVars>>

\* one iteration of the loop of parse_reviews: _load_reviews, then either
\* the return, the re-raise, or the sleep and the cleanup before the next
\* iteration
Attempt ==
    /\ p_pc = "loop"
    /\ attempt < max_retries
    /\ \E o \in LoadOracles, q \in QuitOutcomes :
        LET r == _load_reviews(_driver, o)
            last == IsLastAttempt(attempt, max_retries)
            c == cleanup(r.driver, q)
        IN /\ loads' = loads + 1
           /\ attempts_log' = Append(attempts_log, r.error)
           /\ created' = created + r.created
           /\ sessions' = Append(sessions, IF r.driver = "None" THEN -1
                                           ELSE created + r.created)
           /\ IF Retried(r.kind, last)
              THEN \* time.sleep(2 ** attempt); self.cleanup()
                   /\ waited' = waited + Pow2(attempt)
                   /\ quits' = quits + c.quits
                   /\ quit_errors' = quit_errors + c.errors
                   /\ _driver' = c.driver
                   /\ active' = active + r.created - c.quits
                   /\ attempt' = attempt + 1
                   /\ UNCHANGED <<p_pc, parse_result>>
              ELSE /\ p_pc' = IF r.kind = "list" THEN "returned" ELSE "raised"
                   /\ parse_result' = [kind |-> r.kind, error |-> r.error,
                                       reviews |-> r.reviews,
                                       page |-> r.page]
                   /\ _driver' = r.driver
                   /\ active' = active + r.created
                   /\ UNCHANGED <<waited, quits, quit_errors, attempt>>
    /\ UNCHANGED <<max_retries, parses, extractVars>>
    /\ UNCHANGED <<analyzerVars, callerVars, batchVars, mainVars>>

\* range(self.max_retries) is exhausted: parse_reviews falls off its end and
\* returns None
LoopExit ==
    /\ p_pc = "loop"
    /\ attempt >= max_retries
    /\ p_pc' = "returned"
    /\ parse_result' = [kind |-> "None", error |-> "none", reviews |-> <<>>,
                        page |-> "none"]
    /\ UNCHANGED <<max_retries, _driver, attempt, loads, attempts_log,
                   waited, created, quits, quit_errors, sessions, active,
                   parses, extractVars>>
    /\ UNCHANGED <<analyzerVars, callerVars, batchVars, mainVars>>

----------------------------------------------------------------------------
(* SpecExtract: the extraction step of _load_reviews on the review         *)
(* elements of a loaded page: executor.map runs _parse_review_element on   *)
(* each element, in any order, and the results are kept in the order of    *)
(* the elements.                                                           *)

RawElements ==
    {Element(t, r, a, Found(<<"2024-01-01">>)) :
        t \in {Found(<<" ", "a">>), Found(<<" ">>),
               Raises("StaleElementReferenceException")},
        r \in {Found(<<"5">>), Found(<<"6">>), Found(<<"x">>),
               Raises("NoSuchElementException")},
        a \in {Found(<<"Ann">>), Raises("NoSuchElementException"),
               Raises("WebDriverException")}}
    \cup
    {Element(Found(<<"a">>), r, Found(<<"Ann">>),
             Raises("NoSuchElementException")) :
        r \in {Found(<<"0">>), Found(<<"5", " ", "x">>),
               Found(<<"-", "1">>), Found(<<" ">>),
               Raises("WebDriverException")}}
    \cup
    {Element(Raises("WebDriverException"), Found(<<"5">>),
             Found(<<"Ann">>), Found(<<"2024-01-01">>))}

ElementLists == UNION {[1..n -> RawElements] : n \in 0..MaxElements}

\* an element executor.map has not returned a result for
NotParsed == [done |-> FALSE, review |-> None]

InitExtract ==
    /\ InitAnalyzer
    /\ InitCaller
    /\ IdleBatch
    /\ IdleMain
    /\ max_retries = 3
    /\ _driver = "open"
    /\ p_pc = "loop"
    /\ attempt = 0
    /\ loads = 0
    /\ attempts_log = <<>>
    /\ waited = 0
    /\ created = 1
    /\ quits = 0
    /\ quit_errors = 0
    /\ sessions = <<>>
    /\ active = 1
    /\ parses = 1
    /\ parse_result = NoParse
    /\ x_elements \in ElementLists
    /\ x_parsed = [i \in 1..Len(x_elements) |-> NotParsed]
    /\ x_pc = "map"
    /\ x_reviews = <<>>

\* a worker of the executor runs _parse_review_element on one element
ParseElement ==
    /\ x_pc = "map"
    /\ \E i \in 1..Len(x_elements) :
        /\ ~x_parsed[i].done
        /\ x_parsed' = [x_parsed EXCEPT ![i] =
                [done |-> TRUE,
                 review |-> _parse_review_element(x_elements[i])]]
    /\ UNCHANGED <<x_elements, x_pc, x_reviews>>
    /\ UNCHANGED <<max_retries, _driver, p_pc, attempt, loads, attempts_log,
                   waited, created, quits, quit_errors, sessions, active,
                   parses, parse_result>>
    /\ UNCHANGED <<analyzerVars, callerVars, batchVars, mainVars>>

\* every element has its result: filter(None, ...) drops the None ones and
\* `return reviews` (also `return []` when there were no elements)
CollectReviews ==
    /\ x_pc = "map"
    /\ \A i \in 1..Len(x_elements) : x_parsed[i].done
    /\ x_reviews' = SelectSeq([i \in 1..Len(x_parsed) |-> x_parsed[i].review],
                              LAMBDA r : r # None)
    /\ x_pc' = "returned"
    /\ UNCHANGED <<x_elements, x_parsed>>
    /\ UNCHANGED <<max_retries, _driver, p_pc, attempt, loads, attempts_log,
                   waited, created, quits, quit_errors, sessions, active,
                   parses, parse_result>>
    /\ UNCHANGED <<analyzerVars, callerVars, batchVars, mainVars>>

NextExtract ==
    \/ ParseElement
    \/ CollectReviews

SpecExtract == InitExtract /\ [][NextExtract]_vars

----------------------------------------------------------------------------
(* SpecParser: one ReviewParser whose parse_reviews and cleanup are called *)
(* any number of times, in any order.                                      *)

InitParser ==
    /\ InitAnalyzer
    /\ InitCaller
    /\ IdleBatch
    /\ IdleMain
    /\ \E k \in 0..MaxParserRetries : InitParserWith(k)

\* parser.parse_reviews(url) is called
ParseReviews ==
    /\ p_pc \in {"idle", "returned", "raised"}
    /\ parses < MaxParses
    /\ parses' = parses + 1
    /\ StartParse
    /\ UNCHANGED <<analyzerVars, callerVars, batchVars, mainVars>>

\* parser.cleanup() is called from outside parse_reviews: the finally block
\* of main, the atexit hook, __del__
Cleanup ==
    /\ p_pc \in {"idle", "returned", "raised"}
    /\ \E q \in QuitOutcomes :
        LET c == cleanup(_driver, q)
        IN /\ _driver' = c.driver
           /\ quits' = quits + c.quits
           /\ quit_errors' = quit_errors + c.errors
           /\ active' = active - c.quits
    /\ UNCHANGED <<max_retries, p_pc, attempt, loads, attempts_log, waited,
                   created, sessions, parse_result, parses, extractVars>>
    /\ UNCHANGED <<analyzerVars, callerVars, batchVars, mainVars>>

NextParser ==
    \/ ParseReviews
    \/ Attempt
    \/ LoopExit
    \/ Cleanup

SpecParser == InitParser /\ [][NextParser]_vars

----------------------------------------------------------------------------
(* SecurityManager.hash_data and process_reviews_batch *)

CharCode(c) == CHOOSE i \in 1..Len(AlphabetSeq) : AlphabetSeq[i] = c
Radix == Len(AlphabetSeq) + 1

\* hashlib.sha256(data.encode()).hexdigest(): a digest of the exact
\* characters, taken to be free of collisions
RECURSIVE hash_data(_)
hash_data(data) ==
    IF data = <<>> THEN 0
    ELSE hash_data(SubSeq(data, 1, Len(data) - 1)) * Radix
            + CharCode(data[Len(data)])

\* a dict without the fingerprint of the text
CacheEntry_no_hash(review, sentiment, lang) ==
    [text |-> review.text, hash |-> 0,
     sentiment |-> sentiment, language |-> lang, rating |-> review.rating,
     author |-> review.author, date |-> review.date]
\* the dict appended to cache
CacheEntry(review, sentiment, lang) ==
    [text |-> review.text, hash |-> hash_data(review.text),
     sentiment |-> sentiment, language |-> lang, rating |-> review.rating,
     author |-> review.author, date |-> review.date]

\* a filter that lets every fetched review through
IsNew_any(review, c) == TRUE
\* `not any(cached['hash'] == review_hash for cached in cache)`
IsNew(review, c) ==
    ~\E i \in 1..Len(c) : c[i].hash = hash_data(review.text)

\* the filter loop: every fetched review is compared with the cache as it is
\* before anything is appended
NewReviews(reviews, c) == SelectSeq(reviews, LAMBDA r : IsNew(r, c))

\* a handler that returns an empty list
OnFetchError_empty(c) == <<>>
\* `except NetworkError / ParsingError / Exception: return cache`
OnFetchError(c) == c

\* the methods of SecurityManager
SecurityManagerMethods ==
    {"encrypt_data", "decrypt_data", "generate_secure_token", "hash_data",
     "validate_url", "validate_telegram_token", "validate_chat_id",
     "sanitize_text", "secure_config", "load_secure_config",
     "save_secure_config", "validate_review"}

\* security_manager.<method>(...) on a file holding `value`: a method the
\* class does not have raises AttributeError
CallMethod(method, value) ==
    IF method \in SecurityManagerMethods
    THEN [raised |-> FALSE, exc |-> "none", value |-> value]
    ELSE [raised |-> TRUE, exc |-> "AttributeError", value |-> <<>>]

\* handlers that let the exception out
OnLoadError_reraise(e) == [raised |-> TRUE, exc |-> e, value |-> <<>>]
\* the three handlers of load_cache (SecurityError, ValidationError,
\* Exception): each logs the error and returns []
OnLoadError(e) == [raised |-> FALSE, exc |-> e, value |-> <<>>]

\* load_cache(security_manager)
load_cache(file) ==
    LET r == CallMethod("load_secure_cache", file)
    IN IF r.raised THEN OnLoadError(r.exc) ELSE r

\* save_cache(security_manager, cache): what reviews_cache.json holds
\* afterwards; an exception is logged and swallowed
save_cache(file, c) ==
    LET r == CallMethod("save_secure_cache", c)
    IN IF r.raised THEN file ELSE r.value

\* what the collaborators of the analyzer do during a run
RunOracles ==
    {[detect |-> "en", translate |-> "same",
      score |-> [raises |-> FALSE, polarity |-> 5], unexpected |-> FALSE],
     [detect |-> "ru", translate |-> "Exception",
      score |-> [raises |-> FALSE, polarity |-> 5], unexpected |-> FALSE],
     [detect |-> "ru", translate |-> "translated",
      score |-> [raises |-> TRUE, polarity |-> 0], unexpected |-> TRUE]}

\* the parser, the analyzer and an empty cache, as a first run has them
Init ==
    /\ InitAnalyzer
    /\ InitCaller
    /\ IdleBatch
    /\ \E k \in 0..MaxRetries : InitParserWith(k)
    /\ IdlePipe
    /\ IdleProc

\* process_reviews_batch is called with the present cache and calls
\* parser.parse_reviews
StartBatch ==
    /\ m_pc \in {"idle", "returned", "loaded"}
    /\ runs < MaxRuns
    /\ runs' = runs + 1
    /\ m_pc' = "fetch"
    /\ cache_in' = cache
    /\ new_reviews' = <<>>
    /\ idx' = 0
    /\ analyzer_calls' = 0
    /\ failed' = {}
    /\ StartParse
    /\ parses' = parses + 1
    /\ UNCHANGED <<cache, storeVars, procVars>>
    /\ UNCHANGED <<analyzerVars, callerVars, batchVars>>

\* parse_reviews has ended. A list is filtered against the cache; an
\* exception (also the TypeError of len(None)) goes to a handler that
\* returns the cache.
Filter ==
    /\ m_pc = "fetch"
    /\ p_pc \in {"returned", "raised"}
    /\ IF parse_result.kind = "list"
       THEN LET new == NewReviews(parse_result.reviews, cache)
            IN /\ new_reviews' = new
               /\ m_pc' = IF new = <<>> THEN "returned" ELSE "analyze"
               /\ idx' = IF new = <<>> THEN 0 ELSE 1
               /\ UNCHANGED cache
       ELSE /\ cache' = OnFetchError(cache)
            /\ m_pc' = "returned"
            /\ UNCHANGED <<new_reviews, idx>>
    /\ p_pc' = "idle"
    \* the call of parse_reviews is over: what was kept about it is dropped
    /\ attempt' = 0
    /\ loads' = 0
    /\ attempts_log' = <<>>
    /\ waited' = 0
    /\ created' = 0
    /\ quits' = 0
    /\ quit_errors' = 0
    /\ sessions' = <<>>
    /\ UNCHANGED <<max_retries, _driver, active, parses, parse_result,
                   extractVars>>
    /\ UNCHANGED <<cache_in, analyzer_calls, failed, runs, storeVars,
                   procVars>>
    /\ UNCHANGED <<analyzerVars, callerVars, batchVars>>

\* SecurityManager.validate_review. main() passes the Review dataclass:
\* `field in review` raises TypeError for it, which the method catches and
\* answers with False. A dict is checked field by field.
validate_review(type, review) ==
    IF type # "dict" THEN FALSE
    ELSE /\ \E k \in 1..Len(review.text) : review.text[k] \notin Whitespace
         /\ 0 <= review.rating /\ review.rating <= 5

\* line 92: the call is a statement of its own; what it returns is dropped,
\* so it never makes the loop skip the review
Skips(valid) == FALSE

\* where a statement of the loop body raises an exception of its own
\* (a MemoryError, say): nowhere, at line 92 before the analysis, or in
\* logging.info after the append
BodyOutcomes == {"none", "before_analysis", "after_append"}

\* a handler that hands the exception to the handlers of the batch
OnItemError_escalate(e) == "returned"
\* `except ValidationError` / `except Exception` inside the loop: the error
\* is logged and the loop goes on with the next review
OnItemError(e) == "analyze"

\* an append that puts the entry in front
Appended_front(c, entry) == <<entry>> \o c
\* cache.append({...})
Appended(c, entry) == Append(c, entry)

\* one iteration of the analysis loop: validate_review, analyze_sentiment,
\* cache.append, logging.info, and the handlers around them
AnalyzeNext ==
    /\ m_pc = "analyze"
    /\ idx <= Len(new_reviews)
    /\ \E o \in RunOracles, b \in BodyOutcomes :
        LET review == new_reviews[idx]
            skip == Skips(validate_review("Review", review))
            r == analyze_sentiment(PyStr(review.text), o, lang_lru,
                                   sent_lru, translation_cache)
            analysed == ~skip /\ b # "before_analysis"
            appended == analysed /\ ~r.raised
            raised == ~skip /\ (b # "none" \/ r.raised)
        IN /\ cache' = IF appended
                       THEN Appended(cache, CacheEntry(review, r.sentiment,
                                                       r.language))
                       ELSE cache
           /\ lang_lru' = IF analysed THEN r.lang_lru ELSE lang_lru
           /\ sent_lru' = IF analysed THEN r.sent_lru ELSE sent_lru
           /\ translation_cache' = IF analysed THEN r.translation_cache
                                   ELSE translation_cache
           /\ analyzer_calls' = analyzer_calls + (IF analysed THEN 1 ELSE 0)
           /\ failed' = IF raised /\ ~appended THEN failed \cup {idx}
                        ELSE failed
           /\ m_pc' = IF raised THEN OnItemError("Exception") ELSE "analyze"
    /\ idx' = idx + 1
    /\ UNCHANGED <<cache_in, new_reviews, runs, storeVars, procVars>>
    /\ UNCHANGED <<callerVars, batchVars, parserVars>>

\* the analysis loop is over: `return cache`
FinishBatch ==
    /\ m_pc = "analyze"
    /\ idx > Len(new_reviews)
    /\ m_pc' = "returned"
    /\ UNCHANGED <<cache, cache_in, new_reviews, idx, analyzer_calls,
                   failed, runs, storeVars, procVars>>
    /\ UNCHANGED <<analyzerVars, callerVars, batchVars, parserVars>>

\* `cache = load_cache(security_manager)` at the start of a run
LoadCache ==
    /\ m_pc \in {"idle", "saved"}
    /\ runs < MaxRuns
    /\ LET r == load_cache(cache_file)
       IN /\ load_exc' = r.exc
          /\ m_pc' = IF r.raised THEN "raised" ELSE "loaded"
          /\ cache' = IF r.raised THEN cache ELSE r.value
    /\ UNCHANGED <<cache_in, new_reviews, idx, analyzer_calls, failed,
                   runs, cache_file, procVars>>
    /\ UNCHANGED <<analyzerVars, callerVars, batchVars, parserVars>>

\* `save_cache(security_manager, cache)` at the end of a run
SaveCache ==
    /\ m_pc = "returned"
    /\ cache_file' = save_cache(cache_file, cache)
    /\ m_pc' = "saved"
    /\ UNCHANGED <<cache, cache_in, new_reviews, idx, analyzer_calls,
                   failed, runs, load_exc, procVars>>
    /\ UNCHANGED <<analyzerVars, callerVars, batchVars, parserVars>>

Next ==
    \/ LoadCache
    \/ StartBatch
    \/ Attempt
    \/ LoopExit
    \/ Filter
    \/ AnalyzeNext
    \/ FinishBatch
    \/ SaveCache

Spec == Init /\ [][Next]_vars

----------------------------------------------------------------------------
(* SpecMain: main(), from its first statement to the end of its finally    *)
(* block. The constructor call of line 178 passes keywords that            *)
(* SentimentAnalyzer.__init__ does not take, so every run that gets that   *)
(* far leaves the try block there.                                         *)

\* the parameters of SentimentAnalyzer.__init__ and the keywords main() uses
InitParams == {"target_language", "max_workers"}
MainKeywords == {"target_language", "min_confidence", "batch_size"}

\* SentimentAnalyzer(**keywords)
SentimentAnalyzer(keywords) ==
    IF keywords \subseteq InitParams
    THEN [raised |-> FALSE, exc |-> "none"]
    ELSE [raised |-> TRUE, exc |-> "TypeError"]

InitMain ==
    /\ InitAnalyzer
    /\ InitCaller
    /\ IdleBatch
    /\ IdleParser
    /\ IdlePipe
    /\ IdleConfig
    /\ config_file \in ConfigFiles \cup {NoFile}
    /\ mn_pc = "load_config"
    /\ mn_bound = {}
    /\ mn_exc = "none"
    /\ mn_original = "none"
    /\ mn_cleanups = 0
    /\ mn_notified = 0

\* a statement of the try block ended: normally, binding `names` and going
\* on to `next`, or by raising `exc`
Statement(raised, exc, names, next) ==
    /\ mn_pc' = IF raised THEN "except" ELSE next
    /\ mn_exc' = IF raised THEN exc ELSE "none"
    /\ mn_original' = IF raised THEN exc ELSE "none"
    /\ mn_bound' = IF raised THEN mn_bound ELSE mn_bound \cup names

\* config_manager = ConfigManager(); config = config_manager.load_config()
LoadConfig ==
    /\ mn_pc = "load_config"
    /\ LET r == load_config(config_file)
       IN /\ config_file' = r.file
          /\ Statement(r.raised, r.exc, {"config_manager", "config"},
                       "setup_logging")
    /\ UNCHANGED <<pipeVars, mn_cleanups, mn_notified>>
    /\ UNCHANGED <<analyzerVars, callerVars, batchVars, parserVars>>
    /\ UNCHANGED configVars

\* setup_logging(...), which creates the log directory and its handlers
SetupLogging ==
    /\ mn_pc = "setup_logging"
    /\ \E fails \in BOOLEAN :
        Statement(fails, "OSError", {"logging_config"}, "SecurityManager")
    /\ UNCHANGED <<pipeVars, config_file, mn_cleanups, mn_notified>>
    /\ UNCHANGED <<analyzerVars, callerVars, batchVars, parserVars>>
    /\ UNCHANGED configVars

\* security_manager = SecurityManager(), which reads or writes the key file
CreateSecurityManager ==
    /\ mn_pc = "SecurityManager"
    /\ \E fails \in BOOLEAN :
        Statement(fails, "EncryptionError", {"security_manager"},
                  "ReviewParser")
    /\ UNCHANGED <<pipeVars, config_file, mn_cleanups, mn_notified>>
    /\ UNCHANGED <<analyzerVars, callerVars, batchVars, parserVars>>
    /\ UNCHANGED configVars

\* parser = ReviewParser(max_retries=parser_config.max_retries, ...)
CreateParser ==
    /\ mn_pc = "ReviewParser"
    /\ max_retries' = config_file.max_retries.n
    /\ Statement(FALSE, "none", {"parser_config", "parser"},
                 "SentimentAnalyzer")
    /\ UNCHANGED <<_driver, p_pc, attempt, loads, attempts_log, waited,
                   created, quits, quit_errors, sessions, active, parses,
                   parse_result, extractVars>>
    /\ UNCHANGED <<pipeVars, config_file, mn_cleanups, mn_notified>>
    /\ UNCHANGED <<analyzerVars, callerVars, batchVars>>
    /\ UNCHANGED configVars

\* analyzer = SentimentAnalyzer(target_language=..., min_confidence=...,
\* batch_size=...)
CreateAnalyzer ==
    /\ mn_pc = "SentimentAnalyzer"
    /\ LET r == SentimentAnalyzer(MainKeywords)
       IN Statement(r.raised, r.exc, {"analyzer_config", "analyzer"},
                    "get_notifier_config")
    /\ UNCHANGED <<pipeVars, config_file, mn_cleanups, mn_notified>>
    /\ UNCHANGED <<analyzerVars, callerVars, batchVars, parserVars>>
    /\ UNCHANGED configVars

\* the body of `except Exception as e`: log_error, then
\* notifier_config.enabled is read, which raises UnboundLocalError when the
\* name is not bound yet; otherwise the message is sent when notifications
\* and notify_on_error are on, and the exception is raised again
OnFatal(bound, exc, cfg) ==
    IF "notifier_config" \notin bound
    THEN [exc |-> "UnboundLocalError", sent |-> 0]
    ELSE [exc |-> exc,
          sent |-> IF cfg.enabled /\ cfg.notify_on_error THEN 1 ELSE 0]

\* the except block of main()
Except ==
    /\ mn_pc = "except"
    /\ LET h == OnFatal(mn_bound, mn_exc, config_file)
       IN /\ mn_exc' = h.exc
          /\ mn_notified' = mn_notified + h.sent
    /\ mn_pc' = "finally"
    /\ UNCHANGED <<pipeVars, config_file, mn_bound, mn_original,
                   mn_cleanups>>
    /\ UNCHANGED <<analyzerVars, callerVars, batchVars, parserVars>>
    /\ UNCHANGED configVars

\* a teardown placed at the end of the try block
Teardown_at_end(bound, exc, drv, q) ==
    IF exc = "none" /\ "parser" \in bound
    THEN [exc |-> exc, calls |-> 1, c |-> cleanup(drv, q)]
    ELSE [exc |-> exc, calls |-> 0, c |-> cleanup("None", q)]
\* `finally: parser.cleanup()`; the name parser may not be bound
Teardown(bound, exc, drv, q) ==
    IF "parser" \in bound
    THEN [exc |-> exc, calls |-> 1, c |-> cleanup(drv, q)]
    ELSE [exc |-> "UnboundLocalError", calls |-> 0,
          c |-> [driver |-> drv, quits |-> 0, errors |-> 0]]

\* the finally block, after which main() is left
Finally ==
    /\ mn_pc = "finally"
    /\ \E q \in QuitOutcomes :
        LET t == Teardown(mn_bound, mn_exc, _driver, q)
        IN /\ mn_exc' = t.exc
           /\ mn_cleanups' = mn_cleanups + t.calls
           /\ _driver' = t.c.driver
           /\ quits' = quits + t.c.quits
           /\ quit_errors' = quit_errors + t.c.errors
           /\ active' = active - t.c.quits
    /\ mn_pc' = "ended"
    /\ UNCHANGED <<max_retries, p_pc, attempt, loads, attempts_log, waited,
                   created, sessions, parses, parse_result, extractVars>>
    /\ UNCHANGED <<pipeVars, config_file, mn_bound, mn_original,
                   mn_notified>>
    /\ UNCHANGED <<analyzerVars, callerVars, batchVars>>
    /\ UNCHANGED configVars

NextMain ==
    \/ LoadConfig
    \/ SetupLogging
    \/ CreateSecurityManager
    \/ CreateParser
    \/ CreateAnalyzer
    \/ Except
    \/ Finally

SpecMain == InitMain /\ [][NextMain]_vars

----------------------------------------------------------------------------
(* SpecConfig: ConfigManager.save_config, statement by statement, on a     *)
(* ConfigManager that holds its defaults, with or without a config.json.   *)

\* a config.json whose writing stopped half way: it is there and json.load
\* cannot read it
Truncated == [NoFile EXCEPT !.exists = TRUE, !.sections = {}]
\* open() and json.load() succeed on the file
Readable(file) == file.exists /\ file # Truncated

\* a config.json that passed validation when it was written
StoredFile ==
    ConfigFile(TRUE, Sections, PyInt(3), PyInt(10), PyFloat(6), FALSE, "", "",
               PyInt(1000), "INFO", TRUE, TRUE)

\* how the rename to the backup path ends
RenameOutcomes == {"ok", "OSError"}
\* how `with open(config_path, 'w')` and json.dump end: the file is written,
\* open() fails, or the write stops after the file was created
WriteOutcomes == {"ok", "open_fails", "dump_fails"}

InitConfig ==
    /\ InitAnalyzer
    /\ InitCaller
    /\ IdleBatch
    /\ IdleParser
    /\ IdlePipe
    /\ config_file \in {NoFile, StoredFile}
    /\ mn_pc = "idle"
    /\ mn_bound = {}
    /\ mn_exc = "none"
    /\ mn_original = "none"
    /\ mn_cleanups = 0
    /\ mn_notified = 0
    /\ cm_pc = "validate"
    /\ cm_new \in ConfigFiles
    /\ cm_backup = NoFile
    /\ cm_memory = DefaultConfig

\* self._validate_config(config); a ValueError is logged and re-raised
SaveValidate ==
    /\ cm_pc = "validate"
    /\ cm_pc' = IF _validate_config(cm_new) THEN "backup" ELSE "raised"
    /\ UNCHANGED <<cm_new, cm_backup, cm_memory, config_file>>
    /\ UNCHANGED <<mn_pc, mn_bound, mn_exc, mn_original, mn_cleanups,
                   mn_notified, pipeVars>>
    /\ UNCHANGED <<analyzerVars, callerVars, batchVars, parserVars>>

\* `if self.config_path.exists(): self.config_path.rename(backup_path)`
SaveBackup ==
    /\ cm_pc = "backup"
    /\ IF config_file.exists
       THEN \E r \in RenameOutcomes :
                IF r = "ok"
                THEN /\ cm_backup' = config_file
                     /\ config_file' = NoFile
                     /\ cm_pc' = "write"
                ELSE /\ cm_pc' = "raised"
                     /\ UNCHANGED <<cm_backup, config_file>>
       ELSE /\ cm_pc' = "write"
            /\ UNCHANGED <<cm_backup, config_file>>
    /\ UNCHANGED <<cm_new, cm_memory>>
    /\ UNCHANGED <<mn_pc, mn_bound, mn_exc, mn_original, mn_cleanups,
                   mn_notified, pipeVars>>
    /\ UNCHANGED <<analyzerVars, callerVars, batchVars, parserVars>>

\* `with open(self.config_path, 'w') as f: json.dump(config, f, ...)`
SaveWrite ==
    /\ cm_pc = "write"
    /\ \E w \in WriteOutcomes :
        /\ config_file' = CASE w = "ok" -> cm_new
                             [] w = "open_fails" -> config_file
                             [] w = "dump_fails" -> Truncated
        /\ cm_pc' = IF w = "ok" THEN "update" ELSE "raised"
    /\ UNCHANGED <<cm_new, cm_backup, cm_memory>>
    /\ UNCHANGED <<mn_pc, mn_bound, mn_exc, mn_original, mn_cleanups,
                   mn_notified, pipeVars>>
    /\ UNCHANGED <<analyzerVars, callerVars, batchVars, parserVars>>

\* self._update_configs(config), and save_config returns
SaveUpdate ==
    /\ cm_pc = "update"
    /\ cm_memory' = cm_new
    /\ cm_pc' = "done"
    /\ UNCHANGED <<cm_new, cm_backup, config_file>>
    /\ UNCHANGED <<mn_pc, mn_bound, mn_exc, mn_original, mn_cleanups,
                   mn_notified, pipeVars>>
    /\ UNCHANGED <<analyzerVars, callerVars, batchVars, parserVars>>

NextConfig ==
    \/ SaveValidate
    \/ SaveBackup
    \/ SaveWrite
    \/ SaveUpdate

SpecConfig == InitConfig /\ [][NextConfig]_vars

----------------------------------------------------------------------------
(* Claims *)

\* C1: the cache never holds two entries with the same 'hash', whatever
\* lists were fetched, a list with a repeated text included.
C1_NoDuplicateEntries ==
    \A i, j \in 1..Len(cache) : i # j => cache[i].hash # cache[j].hash

\* C2: when parse_reviews raised NetworkError or ParsingError,
\* process_reviews_batch returns the cache it was given, entry for entry,
\* and analyze_sentiment was not called.
C2_FetchFailurePreservesCache ==
    (m_pc = "returned"
        /\ parse_result.kind \in {"NetworkError", "ParsingError"})
        => (cache = cache_in /\ analyzer_calls = 0)

C2_Witness ==
    /\ m_pc = "returned"
    /\ parse_result.kind = "NetworkError"
    /\ parse_result.error = "TimeoutException"
    /\ cache_in # <<>>
    /\ cache = cache_in

Retryable(e) == e \in {"TimeoutException", "WebDriverException"}
AllRetryable(log) == \A i \in 1..Len(log) : Retryable(log[i])

\* C3: with max_retries = k >= 1 there are never more than k load attempts,
\* and when every attempt fails with a timeout or a transport error the
\* call goes on until the k-th attempt and then raises that attempt's
\* NetworkError.
C3_RetryBound ==
    (max_retries >= 1 /\ parses > 0) =>
        /\ loads <= max_retries
        /\ (AllRetryable(attempts_log) /\ loads = max_retries) =>
                /\ parse_result.kind = "NetworkError"
                /\ parse_result.error = attempts_log[loads]
        /\ (AllRetryable(attempts_log) /\ loads < max_retries) =>
                parse_result.kind = "none"

C3_Witness ==
    /\ max_retries = 2
    /\ attempts_log = <<"TimeoutException", "WebDriverException">>
    /\ parse_result.kind = "NetworkError"
    /\ parse_result.error = "WebDriverException"

\* C4: with max_retries = k, j retryable failures (0 <= j <= k - 1) followed
\* by a success make parse_reviews return the list after exactly j + 1 load
\* attempts: it does not give up before, and attempts nothing after.
C4_RetrySuccess ==
    (max_retries >= 1 /\ parses > 0) =>
        /\ \A n \in 1..Len(attempts_log) :
            (attempts_log[n] = "none"
                /\ AllRetryable(SubSeq(attempts_log, 1, n - 1)))
            => /\ n = Len(attempts_log)
               /\ loads = n
               /\ n <= max_retries
               /\ parse_result.kind = "list"
        /\ parse_result.kind = "NetworkError" => loads = max_retries

C4_Witness ==
    /\ max_retries = 2
    /\ attempts_log = <<"TimeoutException", "none">>
    /\ parse_result.kind = "list"
    /\ parse_result.reviews # <<>>
    /\ loads = 2

\* the steps analyze_batch and its workers still have to take
StepsLeft ==
    (CASE b_pc = "called" -> 3
       [] b_pc = "submit" -> 2
       [] b_pc = "as_completed" -> 1
       [] OTHER -> 0)
    + 7 * (Len(b_texts) - Len(futures))
    + 6 * Cardinality(Pending)
    + 5 * Cardinality(At("entry"))
    + 4 * Cardinality(At("detect"))
    + 3 * Cardinality(At("cache_translation"))
    + 2 * Cardinality(At("score"))
    + Cardinality(Finished \ yielded)

\* some thread can take a step: the disjunction of the guards of Enter,
\* Submit / AsCompleted, WorkerTake, the steps of a running worker,
\* YieldFinished, YieldWaited and Return
CanStep ==
    \/ b_pc = "called"
    \/ b_pc = "submit"
    \/ Pending # {} /\ Cardinality(Running) < max_workers
    \/ Running # {}
    \/ b_pc = "as_completed" /\ snapshot \ yielded # {}
    \/ /\ b_pc = "as_completed"
       /\ snapshot \subseteq yielded
       /\ \E k \in 1..Len(Waited) : Waited[k] \notin yielded
    \/ /\ b_pc = "as_completed"
       /\ yielded = future_to_text(b_texts)
       /\ Pending = {} /\ Running = {}

\* C5: for every list of n texts, every pool width and every interleaving,
\* analyze_batch terminates (while it has not returned some thread can take
\* a step, and every step lowers the number of steps left) and what it
\* returns has exactly n (sentiment, language) pairs.
C5_BatchCompleteness ==
    /\ [](b_pc = "returned" =>
            /\ Len(results) = Len(b_texts)
            /\ \A k \in 1..Len(results) :
                /\ results[k][1] \in Polarities \cup {0}
                /\ results[k][2] \in Languages \cup {"unknown"})
    /\ [](b_pc # "returned" => CanStep)
    /\ [][StepsLeft' < StepsLeft]_vars

C5_Witness ==
    /\ b_pc = "returned"
    /\ Len(b_texts) = MaxBatch
    /\ b_texts[1] = b_texts[2]
    /\ Len(results) = MaxBatch
    /\ results[1] # results[2]

\* C6: the i-th result analyze_batch returns is the analysis of the i-th
\* text, in whatever order the workers finished.
C6_ResultsFollowTexts ==
    b_pc = "returned" =>
        /\ Len(results) = Len(b_texts)
        /\ \A i \in 1..Len(results) : results[i] = futures[i].result.pair

\* C7: analyze_sentiment never raises: every call, whatever the value and
\* whatever fails inside it, ends by returning a (sentiment, language) pair.
C7_NeverRaises ==
    an_calls > 0 =>
        /\ ~an_result.raised
        /\ an_result.sentiment \in Polarities \cup {0}
        /\ an_result.language \in Languages \cup {"unknown"}

C7_Witness ==
    /\ an_calls > 0
    /\ an_result.translate_failed
    /\ an_result.detect_failed
    /\ ~an_result.raised

\* C8: when language detection or sentiment scoring fails on a non-empty
\* text and translation does not fail, the call returns (0.0, 'unknown').
C8_FailureGivesUnknown ==
    (/\ an_calls > 0
     /\ an_result.detect_failed \/ an_result.score_failed
     /\ ~an_result.translate_failed)
        => (an_result.sentiment = 0 /\ an_result.language = "unknown")

\* C9: when the detected language is not the target language and the
\* translator fails, the call returns (0.0, detected language) and the
\* scorer is not applied.
C9_TranslationFallback ==
    (an_calls > 0 /\ an_result.translate_failed) =>
        /\ Has(lang_lru, _preprocess_text(an_text))
        /\ an_result.language = lang_lru[_preprocess_text(an_text)]
        /\ an_result.language # target_language
        /\ an_result.sentiment = 0
        /\ ~an_result.scored

C9_Witness ==
    /\ an_calls > 0
    /\ an_result.translate_failed
    /\ an_result.language = "ru"
    /\ an_result.sentiment = 0

\* a text with no word character and no kept punctuation mark
OnlyBlanks(v) ==
    /\ v.type = "str"
    /\ \A i \in 1..Len(v.s) : v.s[i] \in Whitespace \cup SpecialChars

Normalized(entry) == _preprocess_text(PyStr(entry.text))

\* C11: the fingerprint is the digest of the normalized text, so two entries
\* whose texts are identical after normalisation carry the same 'hash' (and
\* the second of two such reviews is filtered as already seen).
C11_FingerprintOfNormalizedText ==
    \A i, j \in 1..Len(cache) :
        Normalized(cache[i]) = Normalized(cache[j])
            => cache[i].hash = cache[j].hash

C13_OneActiveSession ==
    /\ active <= 1
    /\ active = (IF _driver = "None" THEN 0 ELSE 1)

C13_Witness ==
    /\ quit_errors > 0
    /\ created >= 2
    /\ active = 1
    /\ parses = 2

\* the attempts of this call that ran on a session
OnSession == {i \in 1..Len(sessions) : sessions[i] >= 0}

\* C14: when a retryable failure is followed by another attempt, the session
\* of the failed attempt has been quit and dropped before that attempt
\* starts, the attempt runs on a session created for it, and no two attempts
\* of one call run on the same session.
C14_SessionRecreation ==
    /\ (p_pc = "loop" /\ attempt > 0) =>
            /\ _driver = "None"
            /\ quits = Cardinality(OnSession)
    /\ \A i, j \in OnSession : i # j => sessions[i] # sessions[j]
    /\ \A j \in OnSession : j > 1 => sessions[j] = Cardinality(
            {i \in 1..j : sessions[i] > 0})

C14_Witness ==
    /\ max_retries = 3
    /\ sessions = <<0, 1, 2>>
    /\ quits = 2

\* C15: after the failed attempt i (i < max_retries - 1) parse_reviews waits
\* 2^i before attempt i + 1, it does not wait after the last failed attempt,
\* and a call that exhausts k attempts has waited 2^(k-1) - 1 in total.
C15_Backoff ==
    /\ [](p_pc = "loop" => waited = 2^attempt - 1)
    /\ []((p_pc = "raised" /\ parse_result.kind = "NetworkError")
            => waited = 2^(max_retries - 1) - 1)
    /\ [][attempt' = attempt + 1 => waited' = waited + 2^attempt]_vars
    /\ [][(p_pc = "loop" /\ p_pc' # "loop") => waited' = waited]_vars

C15_Witness ==
    /\ max_retries = 3
    /\ p_pc = "raised"
    /\ parse_result.kind = "NetworkError"
    /\ loads = 3
    /\ waited = 3

\* the attempts of this call that ended in a ParsingError
Structural ==
    {n \in 1..Len(attempts_log) :
        attempts_log[n] # "none" /\ ~Retryable(attempts_log[n])}

\* C16: a load attempt that fails with ParsingError ends the call: the
\* ParsingError is raised at once, with no wait, no cleanup and no further
\* attempt, whatever max_retries is.
C16_StructuralNotRetried ==
    /\ [](\A n \in Structural :
            /\ n = Len(attempts_log)
            /\ loads = n
            /\ p_pc = "raised"
            /\ parse_result.kind = "ParsingError")
    /\ [][(loads' = loads + 1 /\ Len(attempts_log') \in Structural')
            => (waited' = waited /\ quits' = quits /\ attempt' = attempt)
          ]_vars

C16_Witness ==
    /\ max_retries = 3
    /\ attempts_log = <<"Exception">>
    /\ p_pc = "raised"
    /\ parse_result.kind = "ParsingError"
    /\ waited = 0
    /\ quits = 0

\* C17: a failure to create the session reaches parse_reviews as a
\* NetworkError and is retried up to max_retries; ParsingError is raised
\* only for a failure after the page was loaded.
C17_InitFailureIsRetryable ==
    /\ (p_pc = "raised" /\ parse_result.error = "driver") =>
            /\ parse_result.kind = "NetworkError"
            /\ loads = max_retries
    /\ parse_result.kind = "ParsingError" => parse_result.error # "driver"

\* C18: every entry of the cache that is saved at the end of one run is in
\* the cache that load_cache returns at the start of the next run.
C18_EntriesPersist ==
    [][(m_pc = "saved" /\ m_pc' = "loaded") =>
            \A i \in 1..Len(cache) :
                \E j \in 1..Len(cache') : cache'[j] = cache[i]]_vars

Scored(sentiments) == SelectSeq(sentiments, LAMBDA r : r[1] # 0)

\* C20: the average get_sentiment_stats reports is the average of the
\* results that carry a valid score; a result with the fallback 0.0 of a
\* failed analysis does not count in it.
C20_StatsExcludeFailures ==
    (b_pc = "returned" /\ Scored(results) # <<>>) =>
        LET stats == get_sentiment_stats(results)
        IN stats.average[1] * Len(Scored(results))
                = SumOf(Scored(results)) * stats.average[2]

\* C21: when the configuration violates a constraint (notifier.enabled with
\* an empty token, for one), main() fails with the validation error, and it
\* has bound nothing, created no session, attempted no fetch and neither
\* loaded nor saved the cache.
C21_ValidationBeforePipeline ==
    (mn_pc = "ended" /\ ~_validate_config(config_file)) =>
        /\ mn_original = "ValueError"
        /\ mn_exc = "ValueError"
        /\ mn_bound = {}
        /\ created = 0 /\ loads = 0 /\ parses = 0
        /\ runs = 0 /\ m_pc = "idle" /\ cache_file = <<>>

\* the configuration lacks a required section or breaks one of the
\* constraints, each read over a value of the declared type (max_retries,
\* timeout and max_size integers, min_confidence a number, in tenths here)
Violates(c) ==
    \/ \E sec \in Sections : sec \notin c.sections
    \/ ~(c.max_retries.type = "int" /\ c.max_retries.n >= 1)
    \/ ~(c.timeout.type = "int" /\ c.timeout.n >= 1)
    \/ ~(c.min_confidence.type \in {"int", "float"}
            /\ c.min_confidence.n \in 0..10)
    \/ ~(c.max_size.type = "int" /\ c.max_size.n >= 1)
    \/ c.level \notin {"DEBUG", "INFO", "WARNING", "ERROR", "CRITICAL"}
    \/ (c.enabled /\ (c.telegram_token = "" \/ c.chat_id = ""))

\* C22: the configuration load_config reads is rejected (ValueError, nothing
\* bound) if and only if it lacks one of the six sections or violates one of
\* the constraints; every other configuration is accepted.
C22_ValidationIff ==
    mn_pc # "load_config" =>
        /\ Violates(config_file) <=> "config" \notin mn_bound
        /\ Violates(config_file) =>
                (mn_original = "ValueError" /\ mn_bound = {})

C22_Witness ==
    /\ mn_pc = "ended"
    /\ config_file.exists
    /\ config_file.enabled
    /\ config_file.telegram_token # ""
    /\ config_file.chat_id = ""
    /\ ~Violates([config_file EXCEPT !.chat_id = "chat"])
    /\ mn_original = "ValueError"

\* C23: when a startup step of main() fails, the exception that leaves
\* main() is the one that step raised, and with notifications and
\* notify_on_error on, one error message has been sent to the notifier.
C23_FatalFailureSurfaced ==
    (mn_pc = "ended" /\ mn_original # "none") =>
        /\ mn_exc = mn_original
        /\ (config_file.enabled /\ config_file.notify_on_error)
                => mn_notified = 1

\* the futures whose worker called detect() for the text t: its lookup in
\* the lru_cache of _detect_language had missed
Detections(t) ==
    {i \in 1..Len(futures) :
        futures[i].local.miss /\ futures[i].local.key = t}

\* C25: while analyze_batch works on a list that holds the same text
\* several times, at most one worker computes the language of that text;
\* every other occurrence finds the memoized value.
C25_NoDuplicateWork ==
    \A i \in 1..Len(futures) :
        Cardinality(Detections(futures[i].local.key)) <= 1

\* C26: never are two workers inside TranslationCache.cache_translation
\* (the mutation of the translation cache of the shared translator) at the
\* same time.
C26_MutationsExclusive ==
    Cardinality(At("cache_translation")) <= 1

\* a record the extraction keeps: its text is not empty after stripping,
\* the first token of its rating parses to a number in [0, 5], and no
\* selector raised anything but a missing or stale sub-element
Wellformed(el) ==
    /\ el.text.exc = "none"
    /\ \E k \in 1..Len(el.text.value) : el.text.value[k] \notin Whitespace
    /\ el.rating.exc = "none"
    /\ \E n \in 0..5 : ParseFloat(FirstToken(Strip(el.rating.value)))
                            = [ok |-> TRUE, value |-> n]
    /\ el.author.exc \in {"none", "NoSuchElementException",
                           "StaleElementReferenceException"}
    /\ el.date.exc \in {"none", "NoSuchElementException",
                         "StaleElementReferenceException"}

\* the positions of the well-formed elements, in their order
RECURSIVE Kept(_, _)
Kept(elements, i) ==
    IF i > Len(elements) THEN <<>>
    ELSE (IF Wellformed(elements[i]) THEN <<i>> ELSE <<>>)
            \o Kept(elements, i + 1)

\* C27: for every list of review elements the extraction returns one
\* review for each element that has a text and a rating in [0, 5], in the
\* order of the elements, with that element's text and rating; every other
\* element gives None and is dropped, and no element stops the extraction
\* of the others.
C27_RecordIsolation ==
    /\ x_pc = "returned" =>
        LET kept == Kept(x_elements, 1)
        IN /\ Len(x_reviews) = Len(kept)
           /\ \A k \in 1..Len(kept) :
                /\ x_reviews[k].text = Strip(x_elements[kept[k]].text.value)
                /\ x_reviews[k].rating \in 0..5
                /\ ParseFloat(FirstToken(
                        Strip(x_elements[kept[k]].rating.value))).value
                    = x_reviews[k].rating
    /\ \A i \in 1..Len(x_parsed) :
        x_parsed[i].done =>
            (x_parsed[i].review = None <=> ~Wellformed(x_elements[i]))

C27_Witness ==
    /\ x_pc = "returned"
    /\ Len(x_elements) = 2
    /\ x_elements[1].author.exc = "WebDriverException"
    /\ Wellformed(x_elements[2])
    /\ Len(x_reviews) = 1
    /\ x_reviews[1].text = <<"a">>

\* the cache holds an entry made of this review
HasEntry(review) ==
    \E k \in 1..Len(cache) : cache[k].hash = hash_data(review.text)

\* C24: an exception raised while one review is processed ends that
\* review's iteration only: the loop goes on to the next review whatever
\* happened, so the batch returns after the last review, and every review
\* whose processing did not raise has its entry.
C24_ItemFailureNeverEscalates ==
    /\ [][(m_pc = "analyze" /\ idx <= Len(new_reviews))
            => (m_pc' = "analyze" /\ idx' = idx + 1)]_vars
    /\ []((m_pc = "returned" /\ new_reviews # <<>>)
            => /\ idx = Len(new_reviews) + 1
               /\ Len(cache) = Len(cache_in) + Len(new_reviews)
                                    - Cardinality(failed)
               /\ \A i \in 1..Len(new_reviews) :
                     i \notin failed => HasEntry(new_reviews[i]))

\* the first new review failed, the second one was analysed and appended,
\* and the batch returned
C24_Witness ==
    /\ m_pc = "returned"
    /\ Len(new_reviews) = 2
    /\ failed = {1}
    /\ ~HasEntry(new_reviews[1])
    /\ HasEntry(new_reviews[2])
    /\ analyzer_calls = 1

\* C28: no cache entry carries the failure result of the analyzer, a
\* sentiment of 0.0 with the language 'unknown'.
C28_OnlySuccessfulAppended ==
    \A k \in 1..Len(cache) :
        ~(cache[k].sentiment = 0 /\ cache[k].language = "unknown")

\* C29: a new review that validate_review reports as invalid, once the loop
\* has passed it, has no entry in the cache.
C29_InvalidRecordSkipped ==
    \A i \in 1..Len(new_reviews) :
        (i < idx /\ ~validate_review("Review", new_reviews[i]))
            => ~HasEntry(new_reviews[i])

\* the first Len(c) entries of d are the entries of c
StartsWith(d, c) == Len(c) <= Len(d) /\ SubSeq(d, 1, Len(c)) = c

\* the positions of new_reviews whose iteration got as far as the append
Processed ==
    SelectSeq([i \in 1..Len(new_reviews) |-> i], LAMBDA i : i \notin failed)

C31_EmptyPageYieldsEmptyList ==
    (p_pc \in {"returned", "raised"} /\ parse_result.page = "no_elements")
        => /\ p_pc = "returned"
           /\ parse_result.kind = "list"
           /\ parse_result.reviews = <<>>
           /\ loads = 1

C33_FailingReleaseContained ==
    /\ [][quit_errors' > quit_errors
            => /\ _driver' = "None"
               /\ p_pc' = p_pc
               /\ p_pc = "loop" => attempt' = attempt + 1]_vars
    /\ [][(/\ _driver = "None"
           /\ Len(sessions') = Len(sessions) + 1
           /\ sessions'[Len(sessions')] >= 0)
            => created' = created + 1]_vars

\* quit() raised in the cleanup after the first attempt, and the second
\* attempt ran on a new session and returned
C33_Witness ==
    /\ p_pc = "returned"
    /\ Len(attempts_log) = 2
    /\ quit_errors = 1
    /\ quits = 1
    /\ created = 2
    /\ _driver = "open"

\* C34: a call of analyze_sentiment with the text of the call before it
\* returns the pair that call returned.
C34_RepeatedTextSameResult ==
    [][(an_calls >= 1 /\ an_calls' = an_calls + 1 /\ an_text' = an_text)
        => /\ an_result'.sentiment = an_result.sentiment
           /\ an_result'.language = an_result.language]_vars

Seen(reviews, c) ==
    {i \in 1..Len(reviews) :
        \E k \in 1..Len(c) : c[k].hash = hash_data(reviews[i].text)}

\* C36: the reviews the analysis loop goes through have no entry in the
\* cache the batch was given, analyze_sentiment is called only from that
\* loop, on the review it is at, and a batch whose fetched reviews are all
\* in the given cache returns that cache with no call of the analyzer.
C36_SeenNeverAnalysed ==
    /\ [](m_pc \in {"analyze", "returned"}
            => Seen(new_reviews, cache_in) = {})
    /\ [][analyzer_calls' > analyzer_calls
            => /\ m_pc = "analyze"
               /\ idx \in 1..Len(new_reviews)
               /\ idx \notin Seen(new_reviews, cache_in)
               /\ analyzer_calls' = analyzer_calls + 1]_vars
    /\ []((/\ m_pc = "returned"
           /\ parse_result.kind = "list"
           /\ Seen(parse_result.reviews, cache_in)
                    = 1..Len(parse_result.reviews))
            => /\ cache = cache_in
               /\ new_reviews = <<>>
               /\ analyzer_calls = 0)

\* two reviews were fetched, one of them with an entry in the given cache:
\* the analyzer was called once, for the other one
C36_Witness ==
    /\ m_pc = "returned"
    /\ parse_result.kind = "list"
    /\ Len(parse_result.reviews) = 2
    /\ Cardinality(Seen(parse_result.reviews, cache_in)) = 1
    /\ Len(new_reviews) = 1
    /\ analyzer_calls = 1
    /\ Len(cache) = Len(cache_in) + 1

\* C37: whatever max_retries the parser was built with, a call of
\* parse_reviews that has ended made at least one load attempt and either
\* returned a list or raised NetworkError or ParsingError.
C37_AlwaysAResult ==
    p_pc \in {"returned", "raised"}
        => /\ loads >= 1
           /\ parse_result.kind \in {"list", "NetworkError", "ParsingError"}
           /\ p_pc = "returned" <=> parse_result.kind = "list"

\* C38: once load_config has been called there is a config.json, and when
\* it holds the defaults, main() has its configuration.
C38_FirstStartSucceeds ==
    mn_pc # "load_config"
        => /\ config_file.exists
           /\ config_file = DefaultConfig => "config" \in mn_bound

\* C39: when save_config has raised and there was a config.json before the
\* call (it is still at config_path, or it is the backup), a readable
\* config.json is at config_path and the section configs are those the
\* ConfigManager held before the call.
C39_SaveNeverLosesConfig ==
    (cm_pc = "raised" /\ (Readable(config_file) \/ cm_backup.exists))
        => /\ Readable(config_file)
           /\ cm_memory = DefaultConfig

\* C40: once the except block of main() is over, and again once the finally
\* block is over, the exception in flight is the one the try block raised.
C40_HandlersKeepOriginal ==
    (mn_pc \in {"finally", "ended"} /\ mn_original # "none")
        => mn_exc = mn_original

====
